---- MODULE Spec2Model ----
(***************************************************************************)
(* A model of the Jupyter kernel for Node.js (index.js): the multipart     *)
(* message codec (parse / send), the shell, control and heartbeat          *)
(* handlers, the source rewrite (rewriteCode) and the evaluation of the    *)
(* rewritten code in the persistent vm context.                            *)
(*                                                                         *)
(* JavaScript values are modelled as follows.  An object is a record; the  *)
(* value undefined of a string-typed property is the string Undefined and  *)
(* null is the string Null.  A frame (a Buffer, or the string it decodes   *)
(* to) is a record [tok, valid, obj]: valid says whether the text is JSON, *)
(* obj is the value JSON.parse gives for it, tok is the text of a frame    *)
(* that is not JSON.  Source text is modelled by the syntax tree acorn     *)
(* builds for it (or by the fact that acorn rejects it).                   *)
(***************************************************************************)
EXTENDS Integers, Sequences, FiniteSets, TLC

\* Number of inbound messages (shell, control, heartbeat) one behaviour handles.
MaxMsgs == 3

VARIABLES
  proc,            \* "running" | "exit0" (process.exit(0)) | "crashed" (uncaught exception)
  executionCount,  \* let executionCount
  console,         \* context.console: << >> (undefined) or <<header of the request that installed the hooks>>
  bindings,        \* the var/function-scope bindings of the vm context (global object properties)
  lexical,         \* names declared let/const/class in the context's script scope
  timers,          \* callbacks user code scheduled through setTimeout & co., not yet run
  sent,            \* every call of send (and of sockets.hb.send), in order; Data gives its frames
  received,        \* every inbound message a handler was invoked with, in order; Args gives its frames
  nextUuid,        \* number of uuid() calls so far
  pending,         \* inbound messages that reached a socket and whose handler has not run yet
  running,         \* << >>, or <<the execute_request whose handler is on the stack>>
  codecIn,         \* the input of the pure function under check (parse, send, rewriteCode)
  codecOut         \* the result of that function on codecIn

vars == <<proc, executionCount, console, bindings, lexical, timers, sent, received,
          nextUuid, pending, running, codecIn, codecOut>>

----------------------------------------------------------------------------
(* JavaScript values *)

Undefined == "undefined"
Null == "null"
EmptyObj == << >>

\* obj[key], which is undefined when the object has no such property
Get(o, k) == IF k \in DOMAIN o THEN o[k] ELSE Undefined

Max(a, b) == IF a > b THEN a ELSE b
Min(a, b) == IF a < b THEN a ELSE b

\* Array.prototype.slice(start, end) on a sequence; start and end are 0-based
\* and a negative one counts from the end
SliceIndex(len, k) == IF k < 0 THEN Max(len + k, 0) ELSE Min(k, len)
Slice(s, start, end) ==
  LET from == SliceIndex(Len(s), start)
      to == SliceIndex(Len(s), end)
  IN  IF to <= from THEN << >> ELSE SubSeq(s, from + 1, to)

----------------------------------------------------------------------------
(* Frames and JSON *)

DELIM == "<IDS|MSG>"

\* a frame whose text is not JSON
Tok(s) == [tok |-> s, valid |-> FALSE, obj |-> EmptyObj]
\* what a destructured element past the end of the array is
UndefinedFrame == Tok(Undefined)

\* properties whose value may be undefined in the objects the kernel serialises
UndefFields == {"username", "session", "ename", "evalue"}

\* the value JSON.parse(JSON.stringify(o)) gives: a property whose value is
\* undefined is left out, an undefined array element becomes null
Serialisable(o) ==
  LET keep == {k \in DOMAIN o : ~(k \in UndefFields /\ o[k] = Undefined)}
  IN  [k \in keep |->
         IF k = "traceback"
         THEN [i \in DOMAIN o[k] |-> IF o[k][i] = Undefined THEN Null ELSE o[k][i]]
         ELSE o[k]]

JSONstringify(o) == [tok |-> "json", valid |-> TRUE, obj |-> Serialisable(o)]
\* JSON.parse throws a SyntaxError on a text that is not JSON (and on undefined)
JSONparseThrows(f) == ~f.valid
JSONparse(f) == f.obj

\* uuid(): a fresh token per call (n is the number of the call)
uuid(n) == [gen |-> "kernel", n |-> n]
UuidFrame(n) == [tok |-> "uuid", valid |-> FALSE, obj |-> uuid(n)]

\* crypto.createHmac('sha256', key).update(data).digest('hex')
Hmac(key, toHash) == [tok |-> "hmac", valid |-> FALSE, obj |-> [key |-> key, data |-> toHash]]

ConfigKey == "config.key"

----------------------------------------------------------------------------
(* The codec: parse and send *)

\* strs.indexOf(DELIM): the 0-based index of the first frame whose text is
\* the delimiter, -1 when there is none
IndexOfDelim(args) ==
  IF \E k \in 1..Len(args) : args[k].tok = DELIM
  THEN (CHOOSE k \in 1..Len(args) :
          /\ args[k].tok = DELIM
          /\ \A j \in 1..(k - 1) : args[j].tok # DELIM) - 1
  ELSE -1

\* position, among the frames after the signature, of the header and of the
\* content frame: const [header, , , content] = strs.slice(i + 2)
HeaderPos == 1
ContentPos == 4

ParsedHeaderFrame(args) ==
  LET rest == Slice(args, IndexOfDelim(args) + 2, Len(args))
  IN  IF Len(rest) >= HeaderPos THEN rest[HeaderPos] ELSE UndefinedFrame

ParsedContentFrame(args) ==
  LET rest == Slice(args, IndexOfDelim(args) + 2, Len(args))
  IN  IF Len(rest) >= ContentPos THEN rest[ContentPos] ELSE UndefinedFrame

\* parse(...args) throws exactly when one of its two JSON.parse calls throws
parseThrows(args) ==
  \/ JSONparseThrows(ParsedHeaderFrame(args))
  \/ JSONparseThrows(ParsedContentFrame(args))

\* the object parse returns: header, content and uuids (the metadata and the
\* parent header are not decoded, the signature is not looked at)
parse(args) ==
  [header |-> JSONparse(ParsedHeaderFrame(args)),
   content |-> JSONparse(ParsedContentFrame(args)),
   uuids |-> Slice(args, 0, IndexOfDelim(args))]

\* the header send builds; replyId is the uuid() drawn for it
ReplyHeader(replyId, type, parent) ==
  [msg_id |-> replyId,
   username |-> Get(parent, "username"),
   msg_type |-> type,
   session |-> Get(parent, "session"),
   version |-> "5.1"]

\* the frames send hands to socket.send; n is the number of uuid() calls
\* made before this one
send(ids, type, content, parent, metadata, n) ==
  LET toHash == << JSONstringify(ReplyHeader(uuid(n + 1), type, parent)),
                   JSONstringify(parent),
                   JSONstringify(metadata),
                   JSONstringify(content) >>
  IN  ids \o << Tok(DELIM), Hmac(ConfigKey, toHash) >> \o toHash

----------------------------------------------------------------------------
(* Source text, as the syntax tree acorn builds for it.  A statement is a  *)
(* record [type, kind, id, val, body]:                                     *)
(*   VariableDeclaration  kind let | const | var, one declarator id = val  *)
(*   ClassDeclaration     class id { ... }, val names the class body       *)
(*   ExpressionStatement  kind names the expression, val its argument     *)
(*   ThrowStatement       val names the thrown value                       *)
(*   BlockStatement       body holds the statements of the block           *)

VarDecl(kind, id, val) ==
  [type |-> "VariableDeclaration", kind |-> kind, id |-> id, val |-> val, body |-> << >>]
ClassDecl(id, val) ==
  [type |-> "ClassDeclaration", kind |-> "class", id |-> id, val |-> val, body |-> << >>]
Expr(kind, val) ==
  [type |-> "ExpressionStatement", kind |-> kind, id |-> "", val |-> val, body |-> << >>]
Throw(val) ==
  [type |-> "ThrowStatement", kind |-> "", id |-> "", val |-> val, body |-> << >>]
Block(body) ==
  [type |-> "BlockStatement", kind |-> "", id |-> "", val |-> "", body |-> body]

\* source text: syntax says whether acorn accepts it, body is Program.body
Source(body) == [syntax |-> "ok", body |-> body]
BadSource == [syntax |-> "bad", body |-> << >>]

\* the values user code throws, with what e.name, e.message and e.stack give;
\* reading a property of null or undefined throws a TypeError
Thrown(kind) ==
  CASE kind = "Error" ->
         [nullish |-> FALSE, name |-> "Error", message |-> "boom", stack |-> "Error: boom at jupyter.js"]
    [] kind = "object" ->
         [nullish |-> FALSE, name |-> "Custom", message |-> Undefined, stack |-> Undefined]
    [] kind = "primitive" ->
         [nullish |-> FALSE, name |-> Undefined, message |-> Undefined, stack |-> Undefined]
    [] kind = "null" ->
         [nullish |-> TRUE, name |-> Undefined, message |-> Undefined, stack |-> Undefined]
    [] kind = "undefined" ->
         [nullish |-> TRUE, name |-> Undefined, message |-> Undefined, stack |-> Undefined]
    [] kind = "SyntaxError" ->
         [nullish |-> FALSE, name |-> "SyntaxError", message |-> "Unexpected token",
          stack |-> "SyntaxError: Unexpected token"]
    [] kind = "Redeclaration" ->
         [nullish |-> FALSE, name |-> "SyntaxError",
          message |-> "Identifier has already been declared",
          stack |-> "SyntaxError: Identifier has already been declared at jupyter.js"]
    [] kind = "ReferenceError" ->
         [nullish |-> FALSE, name |-> "ReferenceError", message |-> "not defined",
          stack |-> "ReferenceError: not defined at jupyter.js"]

ThrownKinds == {"Error", "object", "primitive", "null", "undefined"}

IsLexicalDecl(s) ==
  \/ s.type = "VariableDeclaration" /\ s.kind \in {"let", "const"}
  \/ s.type = "ClassDeclaration"

\* acorn.parse rejects text that is not a program, and a program that
\* declares a name twice in its top-level scope, one of them lexically
AcornRejects(source) ==
  \/ source.syntax = "bad"
  \/ \E i, j \in 1..Len(source.body) :
       /\ i < j
       /\ source.body[i].type \in {"VariableDeclaration", "ClassDeclaration"}
       /\ source.body[j].type \in {"VariableDeclaration", "ClassDeclaration"}
       /\ source.body[i].id = source.body[j].id
       /\ (IsLexicalDecl(source.body[i]) \/ IsLexicalDecl(source.body[j]))

----------------------------------------------------------------------------
(* rewriteCode *)

\* the declaration left with the kind it was written with
VisitVariableDeclaration_KeepKind(node) == node

\* the class declaration left in place
VisitClassDeclaration_KeepClass(node, inProgramBody) == node

\* VariableDeclaration(node) { node.kind = 'var' }: walk.ancestor calls it on
\* every VariableDeclaration of the tree, at any depth
VisitVariableDeclaration(node) == [node EXCEPT !.kind = "var"]

\* ClassDeclaration(node, ancestors): ancestors[0] is the Program, and
\* parent.body[parent.body.indexOf(node)] = declaration replaces the node
\* only when it is an element of Program.body (indexOf gives -1 otherwise,
\* and the assignment to body[-1] changes no element)
VisitClassDeclaration(node, inProgramBody) ==
  IF inProgramBody THEN VarDecl("var", node.id, node.val) ELSE node

VisitNested(node) ==
  CASE node.type = "VariableDeclaration" -> VisitVariableDeclaration(node)
    [] node.type = "ClassDeclaration" -> VisitClassDeclaration(node, FALSE)
    [] OTHER -> node

VisitTop(node) ==
  CASE node.type = "VariableDeclaration" -> VisitVariableDeclaration(node)
    [] node.type = "ClassDeclaration" -> VisitClassDeclaration(node, TRUE)
    [] node.type = "BlockStatement" ->
         [node EXCEPT !.body = [k \in DOMAIN node.body |-> VisitNested(node.body[k])]]
    [] OTHER -> node

rewriteCodeThrows(source) == AcornRejects(source)
\* the program recast.print gives after the walk
rewriteCode(source) ==
  [source EXCEPT !.body = [k \in DOMAIN source.body |-> VisitTop(source.body[k])]]

----------------------------------------------------------------------------
(* vm.runInContext: the evaluation of a script in the persistent context *)

Names == {"x", "A"}

\* fmt(...args): util.format(...args) followed by a newline
fmt(a) == << a, "\n" >>

\* util.inspect(value, { depth: 2 })
inspect(v) ==
  CASE v = Undefined -> "undefined"
    [] v = "Timeout" -> "Timeout {...}"
    [] v \in {"class A {m}", "class A {n}"} -> "[Function: A]"
    [] OTHER -> v

\* the state an evaluation threads through the statements of the script
EvalStart(b, l) ==
  [bindings |-> b, lexical |-> l, streams |-> << >>, timers |-> << >>,
   thrown |-> << >>, value |-> Undefined]

ExecExpression(s, st) ==
  CASE s.kind = "literal" -> [st EXCEPT !.value = s.val]
    [] s.kind = "ident" ->
         IF st.bindings[s.val] = Undefined
         THEN [st EXCEPT !.thrown = << "ReferenceError" >>]
         ELSE [st EXCEPT !.value = st.bindings[s.val]]
    [] s.kind = "console.log" ->
         [st EXCEPT !.streams = Append(@, [name |-> "stdout", text |-> fmt(s.val)]),
                    !.value = Undefined]
    [] s.kind = "console.error" ->
         [st EXCEPT !.streams = Append(@, [name |-> "stderr", text |-> fmt(s.val)]),
                    !.value = Undefined]
    \* setTimeout(() => console.log(val)): console is looked up when the callback runs
    [] s.kind = "setTimeout" ->
         [st EXCEPT !.timers = Append(@, [ref |-> "global", text |-> s.val]),
                    !.value = "Timeout"]
    \* setTimeout(console.log, 0, val): the log function of this request is passed
    [] s.kind = "setTimeout.bound" ->
         [st EXCEPT !.timers = Append(@, [ref |-> "bound", text |-> s.val]),
                    !.value = "Timeout"]
    \* setTimeout(() => { x = val }): the callback assigns a global of the context
    [] s.kind = "setTimeout.assign" ->
         [st EXCEPT !.timers = Append(@, [ref |-> "assign", text |-> s.val]),
                    !.value = "Timeout"]

\* one statement; top says whether it is an element of the script's body
ExecStatement(s, st, top) ==
  CASE s.type = "VariableDeclaration" ->
         IF s.kind = "var"
         THEN [st EXCEPT !.bindings[s.id] = s.val]
         ELSE IF top
              THEN [st EXCEPT !.bindings[s.id] = s.val, !.lexical = @ \cup {s.id}]
              ELSE st
    [] s.type = "ClassDeclaration" ->
         IF top
         THEN [st EXCEPT !.bindings[s.id] = s.val, !.lexical = @ \cup {s.id}]
         ELSE st
    [] s.type = "ExpressionStatement" -> ExecExpression(s, st)
    [] s.type = "ThrowStatement" -> [st EXCEPT !.thrown = << s.val >>]
    [] OTHER -> st

RECURSIVE ExecBlock(_, _)
ExecBlock(stmts, st) ==
  IF stmts = << >> \/ st.thrown # << >>
  THEN st
  ELSE ExecBlock(Tail(stmts), ExecStatement(Head(stmts), st, FALSE))

RECURSIVE ExecScript(_, _)
ExecScript(stmts, st) ==
  IF stmts = << >> \/ st.thrown # << >>
  THEN st
  ELSE ExecScript(Tail(stmts),
                  IF Head(stmts).type = "BlockStatement"
                  THEN ExecBlock(Head(stmts).body, st)
                  ELSE ExecStatement(Head(stmts), st, TRUE))

\* the var declarations of a script, hoisted from any depth
VarDeclaredNames(code) ==
  {code.body[k].id : k \in {j \in DOMAIN code.body :
       code.body[j].type = "VariableDeclaration" /\ code.body[j].kind = "var"}}
  \cup UNION {{code.body[k].body[m].id : m \in {j \in DOMAIN code.body[k].body :
       code.body[k].body[j].type = "VariableDeclaration" /\ code.body[k].body[j].kind = "var"}}
       : k \in DOMAIN code.body}

LexicallyDeclaredNames(code) ==
  {code.body[k].id : k \in {j \in DOMAIN code.body : IsLexicalDecl(code.body[j])}}

\* the early error of a script that declares a name the context already
\* holds a conflicting declaration of (GlobalDeclarationInstantiation)
RedeclarationError(code, b, l) ==
  \/ \E n \in LexicallyDeclaredNames(code) : n \in l \/ b[n] # Undefined
  \/ \E n \in VarDeclaredNames(code) : n \in l

\* vm.runInContext(code, context): the state the evaluation ends in
runInContext(code, b, l) ==
  IF code.syntax = "bad"
  THEN [EvalStart(b, l) EXCEPT !.thrown = << "SyntaxError" >>]
  ELSE IF RedeclarationError(code, b, l)
  THEN [EvalStart(b, l) EXCEPT !.thrown = << "Redeclaration" >>]
  ELSE ExecScript(code.body, EvalStart(b, l))

\* the try block's evaluation: rewriteCode, then vm.runInContext
Evaluate(source, b, l) ==
  IF rewriteCodeThrows(source)
  THEN [EvalStart(b, l) EXCEPT !.thrown = << "SyntaxError" >>]
  ELSE runInContext(rewriteCode(source), b, l)

----------------------------------------------------------------------------
(* Inbound messages: what a front end (or anyone who can reach the port)   *)
(* puts on the wire                                                        *)

\* the header of the n-th message a client sends: clients draw a fresh msg_id
ClientHeader(n, type) ==
  [msg_id |-> [gen |-> "client", n |-> n], username |-> "user", msg_type |-> type,
   session |-> "sess", version |-> "5.3"]

\* the frames of a message, well formed (variant "ok") or damaged
Wire(variant, ids, key, header, content) ==
  LET h == JSONstringify(header)
      p == JSONstringify(EmptyObj)
      m == JSONstringify(EmptyObj)
      c == JSONstringify(content)
      sig == Hmac(key, << h, p, m, c >>)
      junk == Tok("{not json")
  IN  CASE variant = "ok" -> ids \o << Tok(DELIM), sig, h, p, m, c >>
        [] variant = "noDelim" -> ids \o << sig, h, p, m, c >>
        [] variant = "bare" -> ids \o << h, p, m, c >>
        [] variant = "badHeader" -> ids \o << Tok(DELIM), sig, junk, p, m, c >>
        [] variant = "badParent" -> ids \o << Tok(DELIM), sig, h, junk, m, c >>
        [] variant = "badMeta" -> ids \o << Tok(DELIM), sig, h, p, junk, c >>
        [] variant = "badContent" -> ids \o << Tok(DELIM), sig, h, p, m, junk >>
        [] variant = "short" -> ids \o << Tok(DELIM), sig, h, p, m >>

Malformed == {"noDelim", "bare", "badHeader", "badParent", "badMeta", "badContent", "short"}
\* the damaged messages sent to the running kernel
ShellMalformed == Malformed \ {"badParent"}

ForgedKey == "not config.key"

\* the programs front ends submit:
\*   1 + 1                                   console.log("hi")
\*   setTimeout(() => console.log("late"))   let x = 1
\*   const x = 2                             class A { m() {} }
\*   text acorn rejects                      throw <value>, one per kind of value
Programs ==
  { Source(<< Expr("literal", "2") >>),
    Source(<< Expr("console.log", "hi") >>),
    Source(<< Expr("setTimeout", "late") >>),
    Source(<< VarDecl("let", "x", "1") >>),
    Source(<< VarDecl("const", "x", "2") >>),
    Source(<< ClassDecl("A", "class A {m}") >>),
    BadSource }
  \cup { Source(<< Throw(k) >>) : k \in ThrownKinds }

ExecuteContent(source) == [code |-> source, silent |-> FALSE]

\* what a sender decides about a message: how it is framed, its routing
\* identities, the key it signs with, its msg_type and its content
Message(variant, ids, key, type, content) ==
  [variant |-> variant, ids |-> ids, key |-> key, type |-> type, content |-> content]

\* the frames of message m when it is the n-th message on the wire
WireOf(m, n) == Wire(m.variant, m.ids, m.key, ClientHeader(n, m.type), m.content)

\* the messages that can arrive on the shell socket
ShellInputs ==
  { Message("ok", << Tok("idA"), Tok("idB") >>, ConfigKey, "kernel_info_request", EmptyObj),
    Message("ok", << Tok("idA") >>, ConfigKey, "comm_info_request", EmptyObj),
    Message("ok", << Tok("idA") >>, ForgedKey, "execute_request",
            ExecuteContent(Source(<< VarDecl("let", "x", "1") >>))) }
  \cup { Message("ok", << Tok("idA") >>, ConfigKey, "execute_request", ExecuteContent(src)) :
           src \in Programs }
  \cup { Message(v, << Tok("idA") >>, ConfigKey, "execute_request",
                 ExecuteContent(Source(<< Expr("literal", "2") >>))) : v \in ShellMalformed }

\* the messages that can arrive on the control socket
ControlInputs ==
  { Message("ok", << Tok("idA") >>, ConfigKey, "shutdown_request", [restart |-> FALSE]),
    Message("ok", << Tok("idA") >>, ForgedKey, "shutdown_request", [restart |-> FALSE]),
    Message("ok", << Tok("idA") >>, ConfigKey, "interrupt_request", EmptyObj),
    Message("badHeader", << Tok("idA") >>, ConfigKey, "shutdown_request", [restart |-> FALSE]) }

HeartbeatInputs == { << Tok("ping") >> }

\* the frames the handler of the k-th inbound message was invoked with
Args(rcvd, k) ==
  IF rcvd[k].channel = "hb" THEN rcvd[k].msg ELSE WireOf(rcvd[k].msg, k)

----------------------------------------------------------------------------
(* The kernel *)

info ==
  [protocol_version |-> "5.1", implementation |-> "nodejs",
   implementation_version |-> "1.0", language |-> "JavaScript",
   banner |-> "Node.js for Jupyter",
   language_info |-> [name |-> "Node.js", version |-> "0.10", mimetype |-> "text/javascript",
                      file_extension |-> ".js", pygments_lexer |-> "javascript",
                      codemirror_mode |-> "javascript"],
   help_links |-> << "Node.js Documentation", "JavaScript Documentation (MDN)" >>]

\* one call of send on the shell socket, and one call of iopub(type, content, parent)
OnShell(ids, type, content, parent) ==
  [via |-> "shell", ids |-> ids, type |-> type, content |-> content, parent |-> parent]
OnIopub(type, content, parent) ==
  [via |-> "iopub", ids |-> << >>, type |-> type, content |-> content, parent |-> parent]

\* uuid() calls one call makes: iopub draws the identity frame, send the msg_id
UuidsOf(call) == IF call.via = "iopub" THEN 2 ELSE 1

RECURSIVE UuidsUsed(_)
UuidsUsed(calls) ==
  IF calls = << >> THEN 0 ELSE UuidsOf(Head(calls)) + UuidsUsed(Tail(calls))

\* the record kept of a call of send: its arguments, the number n of uuid()
\* calls made before it, and the handler run (cause) that made it
SendCall(socket, ids, type, content, parent, n, cause) ==
  [socket |-> socket, ids |-> ids, type |-> type, content |-> content,
   parent |-> parent, n |-> n, cause |-> cause]

\* the records of a sequence of calls made by handler run number cause after
\* n calls of uuid(); iopub(type, content, parent) is
\* send(sockets.iopub, [uuid()], type, content, parent)
RECURSIVE Emit(_, _, _)
Emit(calls, n, cause) ==
  IF calls = << >>
  THEN << >>
  ELSE LET call == Head(calls)
       IN  << IF call.via = "iopub"
              THEN SendCall("iopub", << UuidFrame(n + 1) >>, call.type, call.content,
                            call.parent, n + 1, cause)
              ELSE SendCall("shell", call.ids, call.type, call.content, call.parent,
                            n, cause) >>
           \o Emit(Tail(calls), n + UuidsOf(call), cause)

\* sockets.hb.send(data): the frames are sent as they are
HbSend(data, cause) == SendCall("hb", data, "", EmptyObj, EmptyObj, 0, cause)

\* the frames socket.send was given by the call recorded in e
Data(e) ==
  IF e.socket = "hb" THEN e.ids ELSE send(e.ids, e.type, e.content, e.parent, EmptyObj, e.n)

\* executionCount left as it is
Increment_Missing(count) == count

\* the value of executionCount after executionCount += 1
Increment(count) == count + 1

\* the catch block with the execute_reply left out
CatchCalls_NoReply(data, e, count) ==
  IF e.nullish
  THEN << >>
  ELSE << OnIopub("error",
                  [ename |-> e.name, evalue |-> e.message, traceback |-> << e.stack >>],
                  data.header) >>

\* the calls of the catch block; reading e.name of null or undefined throws,
\* so neither call is made
CatchCalls(data, e, count) ==
  IF e.nullish
  THEN << >>
  ELSE << OnIopub("error",
                  [ename |-> e.name, evalue |-> e.message, traceback |-> << e.stack >>],
                  data.header),
          OnShell(data.uuids, "execute_reply",
                  [status |-> "error", ename |-> e.name, evalue |-> e.message,
                   traceback |-> << e.stack >>, execution_count |-> count,
                   user_expressions |-> EmptyObj, payload |-> << >>],
                  data.header) >>

\* the calls of the try block after the evaluation returned
ResultCalls(data, value, count) ==
  << OnIopub("execute_result",
             [execution_count |-> count, data |-> [text_plain |-> inspect(value)]],
             data.header),
     OnShell(data.uuids, "execute_reply",
             [status |-> "ok", execution_count |-> count,
              user_expressions |-> EmptyObj, payload |-> << >>],
             data.header) >>

\* the exception that leaves the handler uncaught: the TypeError of the catch block
HandlerThrows(ev) == ev.thrown # << >> /\ Thrown(ev.thrown[1]).nullish

\* the calls made before the hooks are installed
BeginCalls(data, count) ==
  << OnIopub("status", [execution_state |-> "busy"], data.header),
     OnIopub("execute_input", [code |-> data.content.code, execution_count |-> count],
             data.header) >>

\* the calls the log and error hooks make while the code is evaluated
StreamCalls(data, ev) ==
  [k \in DOMAIN ev.streams |-> OnIopub("stream", ev.streams[k], data.header)]

\* the calls made once the evaluation returned or threw
EndCalls(data, ev, count) ==
  (IF ev.thrown = << >>
   THEN ResultCalls(data, ev.value, count)
   ELSE CatchCalls(data, Thrown(ev.thrown[1]), count))
  \o (IF HandlerThrows(ev)
      THEN << >>
      ELSE << OnIopub("status", [execution_state |-> "idle"], data.header) >>)

\* every call the execute_request branch makes, in order
ExecuteCalls(data, ev, count) ==
  BeginCalls(data, count) \o StreamCalls(data, ev) \o EndCalls(data, ev, count)

Init ==
  /\ proc = "running"
  /\ executionCount = 0
  /\ console = << >>
  /\ bindings = [n \in Names |-> Undefined]
  /\ lexical = {}
  /\ timers = {}
  /\ sent = << >>
  /\ received = << >>
  /\ nextUuid = 0
  /\ pending = << >>
  /\ running = << >>
  /\ codecIn = << >>
  /\ codecOut = << >>

Accepting == proc = "running" /\ Len(received) < MaxMsgs

\* an exception thrown by a 'message' handler: the handlers have no
\* try/catch around parse, and no 'error' or uncaughtException listener is
\* installed, so the process ends
Crash ==
  /\ proc' = "crashed"
  /\ UNCHANGED <<executionCount, console, bindings, lexical, timers, sent, nextUuid>>

\* the kernel_info_request branch bracketed by status broadcasts
KernelInfo_WithStatus(data, cause) ==
  LET calls == << OnIopub("status", [execution_state |-> "busy"], data.header),
                  OnShell(data.uuids, "kernel_info_reply", info, data.header),
                  OnIopub("status", [execution_state |-> "idle"], data.header) >>
  IN  /\ sent' = sent \o Emit(calls, nextUuid, cause)
      /\ nextUuid' = nextUuid + UuidsUsed(calls)
      /\ UNCHANGED <<proc, executionCount, console, bindings, lexical, timers>>

\* the kernel_info_request branch
KernelInfo(data, cause) ==
  /\ sent' = sent \o Emit(<< OnShell(data.uuids, "kernel_info_reply", info, data.header) >>,
                          nextUuid, cause)
  /\ nextUuid' = nextUuid + 1
  /\ UNCHANGED <<proc, executionCount, console, bindings, lexical, timers>>

\* the execute_request branch (every execute_request sent to the model has
\* a content.code)
Execute(data, cause) ==
  LET count == Increment(executionCount)
      ev == Evaluate(data.content.code, bindings, lexical)
      calls == ExecuteCalls(data, ev, count)
  IN  /\ executionCount' = count
      /\ console' = << data.header >>
      /\ bindings' = ev.bindings
      /\ lexical' = ev.lexical
      /\ timers' = timers \cup
           { [ref |-> ev.timers[k].ref, text |-> ev.timers[k].text,
              origin |-> data.header, cause |-> cause] : k \in DOMAIN ev.timers }
      /\ sent' = sent \o Emit(calls, nextUuid, cause)
      /\ nextUuid' = nextUuid + UuidsUsed(calls)
      /\ proc' = IF HandlerThrows(ev) THEN "crashed" ELSE proc

\* sockets.shell.on('message', ...)
ShellMessage ==
  /\ Accepting
  /\ \E m \in ShellInputs :
       LET cause == Len(received) + 1
           args == WireOf(m, cause)
       IN
       /\ received' = Append(received, [channel |-> "shell", msg |-> m])
       /\ IF parseThrows(args)
          THEN Crash
          ELSE LET data == parse(args) IN
               CASE Get(data.header, "msg_type") = "kernel_info_request" -> KernelInfo(data, cause)
                 [] Get(data.header, "msg_type") = "execute_request" -> Execute(data, cause)
                 [] OTHER -> UNCHANGED <<proc, executionCount, console, bindings, lexical,
                                         timers, sent, nextUuid>>
  /\ UNCHANGED <<pending, running, codecIn, codecOut>>

\* the control handler with the call of process.exit left out
AfterControl_NoExit(type, p) == p

\* the control handler exiting whatever the msg_type
AfterControl_AnyType(type, p) == "exit0"

\* the process after the control handler ran on a message of this msg_type:
\* process.exit(0) on shutdown_request
AfterControl(type, p) == IF type = "shutdown_request" THEN "exit0" ELSE p

\* sockets.control.on('message', ...)
ControlMessage ==
  /\ Accepting
  /\ \E m \in ControlInputs :
       LET args == WireOf(m, Len(received) + 1) IN
       /\ received' = Append(received, [channel |-> "control", msg |-> m])
       /\ IF parseThrows(args)
          THEN Crash
          ELSE /\ proc' = AfterControl(Get(parse(args).header, "msg_type"), proc)
               /\ UNCHANGED <<executionCount, console, bindings, lexical, timers, sent, nextUuid>>
  /\ UNCHANGED <<pending, running, codecIn, codecOut>>

\* sockets.hb.on('message', (data) => sockets.hb.send(data))
Heartbeat ==
  /\ Accepting
  /\ \E data \in HeartbeatInputs :
       /\ received' = Append(received, [channel |-> "hb", msg |-> data])
       /\ sent' = Append(sent, HbSend(data, Len(received) + 1))
  /\ UNCHANGED <<proc, executionCount, console, bindings, lexical, timers, nextUuid,
                 pending, running, codecIn, codecOut>>

\* the header the stream event of a callback's console.log call is given:
\* the log function passed to setTimeout is the one of the request that
\* scheduled it; console.log looked up when the callback runs is the one
\* of the hooks installed last
CallbackParent(t, hooks) == IF t.ref = "bound" THEN t.origin ELSE hooks[1]

\* the calls a callback makes: console.log(text), or none when it assigns
CallbackCalls(t, hooks) ==
  IF t.ref = "assign"
  THEN << >>
  ELSE << OnIopub("stream", [name |-> "stdout", text |-> fmt(t.text)],
                  CallbackParent(t, hooks)) >>

\* the global bindings after the callback: x = text when it assigns
CallbackBindings(t, b) == IF t.ref = "assign" THEN [b EXCEPT !["x"] = t.text] ELSE b

\* a callback scheduled by user code runs (the event loop is between handlers)
RunTimer ==
  /\ proc = "running"
  /\ running = << >>
  /\ \E t \in timers :
       /\ timers' = timers \ {t}
       /\ sent' = sent \o Emit(CallbackCalls(t, console), nextUuid, t.cause)
       /\ nextUuid' = nextUuid + UuidsUsed(CallbackCalls(t, console))
       /\ bindings' = CallbackBindings(t, bindings)
  /\ UNCHANGED <<proc, executionCount, console, lexical, received, pending, running,
                 codecIn, codecOut>>

Next == ShellMessage \/ ControlMessage \/ Heartbeat \/ RunTimer

Spec == Init /\ [][Next]_vars

----------------------------------------------------------------------------
(* Reading the wire: what an observer of the sockets sees, by the wire     *)
(* format [identity*, delimiter, signature, header, parent_header,         *)
(* metadata, content]                                                      *)

HasDelim(frames) == \E k \in 1..Len(frames) : frames[k].tok = DELIM
DelimAt(frames) == CHOOSE k \in 1..Len(frames) :
                     frames[k].tok = DELIM /\ \A j \in 1..(k - 1) : frames[j].tok # DELIM
WireIds(frames) == SubSeq(frames, 1, DelimAt(frames) - 1)
WireSignature(frames) == frames[DelimAt(frames) + 1]
WirePayload(frames) == SubSeq(frames, DelimAt(frames) + 2, Len(frames))
WireHeader(frames) == WirePayload(frames)[1].obj
WireParent(frames) == WirePayload(frames)[2].obj
WireMetadata(frames) == WirePayload(frames)[3].obj
WireContent(frames) == WirePayload(frames)[4].obj

\* the messages the kernel sent with send, as positions of sent
Sends == {k \in 1..Len(sent) : sent[k].socket # "hb"}
SendsOf(j) == {k \in Sends : sent[k].cause = j}
\* the msg_type send was given, and the content its content frame decodes to
TypeOfSend(k) == sent[k].type
ContentOfSend(k) == JSONparse(JSONstringify(sent[k].content))
SendsOfType(j, type) == {k \in SendsOf(j) : TypeOfSend(k) = type}
IsStatus(k, state) ==
  TypeOfSend(k) = "status" /\ ContentOfSend(k).execution_state = state

\* the inbound messages the shell handler took as an execute_request: it
\* broadcast status busy for them
Executed == {sent[k].cause : k \in {i \in Sends : IsStatus(i, "busy")}}
\* the rank of execute request j among the execute requests ex, in arrival order
ExecRank(ex, j) == Cardinality({i \in ex : i <= j})

----------------------------------------------------------------------------
(* C1: the k-th execute_request handled on the shell channel increments    *)
(* executionCount exactly once, before its execute_reply is sent, and      *)
(* every event of it that carries a count (execute_input, execute_result,  *)
(* execute_reply) carries k, whether executions succeed or fail.           *)

CountTypes == {"execute_input", "execute_result", "execute_reply"}

C1_CountsAreRanks ==
  LET ex == Executed IN
  /\ executionCount = Cardinality(ex)
  /\ \A k \in Sends :
       TypeOfSend(k) \in CountTypes =>
         /\ sent[k].cause \in ex
         /\ ContentOfSend(k).execution_count = ExecRank(ex, sent[k].cause)
  /\ \A j \in ex :
       \E k \in SendsOfType(j, "execute_input") :
         \A r \in SendsOfType(j, "execute_reply") : k < r

\* a failed execution followed by two more executions, the last successful
C1_Witness ==
  \E a, b \in Sends :
    /\ TypeOfSend(a) = "execute_reply" /\ ContentOfSend(a).status = "error"
    /\ ContentOfSend(a).execution_count = 1
    /\ TypeOfSend(b) = "execute_reply" /\ ContentOfSend(b).status = "ok"
    /\ ContentOfSend(b).execution_count = 3

----------------------------------------------------------------------------
(* C2: every execute_request handled on the shell channel produces a       *)
(* status busy broadcast strictly before its execute_reply and a status    *)
(* idle broadcast strictly after it, whatever the evaluation throws.       *)

C2_Bracketed ==
  \A j \in Executed :
    \E b, r, i \in SendsOf(j) :
      /\ IsStatus(b, "busy")
      /\ TypeOfSend(r) = "execute_reply"
      /\ IsStatus(i, "idle")
      /\ b < r /\ r < i

----------------------------------------------------------------------------
(* C3: a failure during the evaluation of user code, for a thrown value of *)
(* any kind, is caught within that execution: one error broadcast and one  *)
(* execute_reply with status error carrying the same ename, evalue and     *)
(* traceback and the execution count, and the process does not terminate.  *)

ErrorFields(c) == [f \in {"ename", "evalue", "traceback"} |-> Get(c, f)]

C3_FailureReported ==
  LET ex == Executed IN
  \A j \in ex :
    SendsOfType(j, "execute_result") = {} =>
      /\ Cardinality(SendsOfType(j, "error")) = 1
      /\ Cardinality(SendsOfType(j, "execute_reply")) = 1
      /\ \A e \in SendsOfType(j, "error") : \A r \in SendsOfType(j, "execute_reply") :
           /\ ContentOfSend(r).status = "error"
           /\ ErrorFields(ContentOfSend(r)) = ErrorFields(ContentOfSend(e))
           /\ ContentOfSend(r).execution_count = ExecRank(ex, j)
      /\ (j = Len(received) => proc = "running")

----------------------------------------------------------------------------
(* C4: an inbound shell or control message whose signature is not the HMAC *)
(* of its four payload strings under the key is rejected: it causes no     *)
(* broadcast, no reply, no change of the execution state and no shutdown.  *)

SignatureMatches(frames) ==
  /\ HasDelim(frames)
  /\ Len(WirePayload(frames)) >= ContentPos
  /\ WireSignature(frames) = Hmac(ConfigKey, SubSeq(WirePayload(frames), 1, ContentPos))

\* the well-framed inbound messages whose signature does not match
Unauthentic ==
  {j \in 1..Len(received) :
     /\ received[j].channel # "hb"
     /\ received[j].msg.variant = "ok"
     /\ ~SignatureMatches(Args(received, j))}

C4_UnauthenticRejected ==
  \A j \in Unauthentic :
    /\ SendsOf(j) = {}
    /\ (j = Len(received) => proc = "running")

----------------------------------------------------------------------------
(* C5: a malformed inbound message (delimiter absent, a payload frame that *)
(* is not JSON, fewer than four payload frames) is dropped: the kernel     *)
(* does not terminate and sends nothing for it.                            *)

IsMalformed(frames) ==
  \/ ~HasDelim(frames)
  \/ Len(WirePayload(frames)) < ContentPos
  \/ \E k \in 1..ContentPos : ~WirePayload(frames)[k].valid

MalformedReceived ==
  {j \in 1..Len(received) :
     received[j].channel # "hb" /\ IsMalformed(Args(received, j))}

C5_MalformedDropped ==
  \A j \in MalformedReceived :
    /\ SendsOf(j) = {}
    /\ (j = Len(received) => proc = "running")

----------------------------------------------------------------------------
(* The codec on its own: parse applied to the frames send produces *)

CodecIds == { << >>, << Tok("idA") >>, << Tok("idA"), Tok("idB") >> }
CodecTypes == {"kernel_info_reply", "execute_reply", "status"}
CodecContents ==
  { [status |-> "ok", execution_count |-> 1],
    [execution_state |-> "busy"],
    [ename |-> "Error", evalue |-> "boom", traceback |-> << "Error: boom" >>],
    [ename |-> Undefined, evalue |-> Undefined, traceback |-> << Undefined >>] }
CodecMetadata == { EmptyObj, [tag |-> "t"] }
CodecParents == { ClientHeader(1, "execute_request"), EmptyObj }

InitCodec ==
  /\ proc = "running"
  /\ executionCount = 0
  /\ console = << >>
  /\ bindings = [n \in Names |-> Undefined]
  /\ lexical = {}
  /\ timers = {}
  /\ sent = << >>
  /\ received = << >>
  /\ nextUuid = 0
  /\ pending = << >>
  /\ running = << >>
  /\ codecIn \in [ids : CodecIds, type : CodecTypes, content : CodecContents,
                  metadata : CodecMetadata, parent : CodecParents]
  /\ codecOut = << >>

\* parse(...frames) on the frames send gave socket.send
CodecRoundTrip ==
  /\ codecOut = << >>
  /\ LET frames == send(codecIn.ids, codecIn.type, codecIn.content, codecIn.parent,
                        codecIn.metadata, nextUuid)
     IN  codecOut' = << IF parseThrows(frames)
                        THEN [threw |-> TRUE, data |-> EmptyObj]
                        ELSE [threw |-> FALSE, data |-> parse(frames)] >>
  /\ UNCHANGED <<proc, executionCount, console, bindings, lexical, timers, sent, received,
                 nextUuid, pending, running, codecIn>>

NextCodec == CodecRoundTrip

SpecCodec == InitCodec /\ [][NextCodec]_vars

----------------------------------------------------------------------------
(* C6: decoding the frames produced by encode yields a Message with the    *)
(* same identities, the same header fields other than msg_id (msg_type,    *)
(* username and session of the parent, the fixed version), the same        *)
(* metadata and the same content.                                          *)

C6_RoundTrip ==
  codecOut # << >> =>
    LET out == codecOut[1].data IN
    /\ ~codecOut[1].threw
    /\ out.uuids = codecIn.ids
    /\ Get(out.header, "msg_type") = codecIn.type
    /\ Get(out.header, "username") = Get(codecIn.parent, "username")
    /\ Get(out.header, "session") = Get(codecIn.parent, "session")
    /\ Get(out.header, "version") = "5.1"
    /\ "metadata" \in DOMAIN out
    /\ out.metadata = codecIn.metadata
    /\ out.content = codecIn.content

----------------------------------------------------------------------------
(* C7: every reply sent on the shell channel carries exactly the identity  *)
(* frames of the request it answers, in the same order and before the      *)
(* delimiter, and embeds that request's header unchanged as parent_header, *)
(* with username and session of the new header copied from it.             *)

\* the header of the j-th inbound message, as its sender wrote it
RequestHeader(j) == ClientHeader(j, received[j].msg.type)

C7_RepliesRouted ==
  \A k \in Sends :
    sent[k].socket = "shell" =>
      LET frames == Data(sent[k])
          j == sent[k].cause
      IN  /\ WireIds(frames) = received[j].msg.ids
          /\ WireParent(frames) = RequestHeader(j)
          /\ WireHeader(frames).username = RequestHeader(j).username
          /\ WireHeader(frames).session = RequestHeader(j).session

----------------------------------------------------------------------------
(* C8: every broadcast on iopub carries as parent_header the header of the *)
(* request that originated it; a stream event is tagged with the header of *)
(* the execute_request whose code made the console call, also when the     *)
(* call is made by a callback that runs after later requests.              *)

C8_BroadcastParent ==
  \A k \in Sends :
    sent[k].socket = "iopub" =>
      WireParent(Data(sent[k])) = RequestHeader(sent[k].cause)

----------------------------------------------------------------------------
(* C9: an execute_request that declares x with let or const, sent after an *)
(* earlier one declared the same x with let or const, ends with status ok  *)
(* like the first, and x then holds the value of the later declaration.    *)

\* the statements of the program inbound message j submitted
Submitted(j) == received[j].msg.content.code.body
DeclaresBlockScoped(j) ==
  /\ Len(Submitted(j)) = 1
  /\ Submitted(j)[1].type = "VariableDeclaration"
  /\ Submitted(j)[1].kind \in {"let", "const"}

RepliedOk(j) ==
  /\ SendsOfType(j, "execute_reply") # {}
  /\ \A r \in SendsOfType(j, "execute_reply") : ContentOfSend(r).status = "ok"

C9_Redeclarable ==
  \A j \in Executed :
    DeclaresBlockScoped(j) =>
      /\ RepliedOk(j)
      /\ (j = Len(received) => bindings[Submitted(j)[1].id] = Submitted(j)[1].val)

\* x declared by two requests with different values; the second has just run
C9_Witness ==
  \E i, j \in Executed :
    /\ i < j /\ j = Len(received)
    /\ DeclaresBlockScoped(i) /\ DeclaresBlockScoped(j)
    /\ Submitted(i)[1].id = Submitted(j)[1].id
    /\ Submitted(i)[1].val # Submitted(j)[1].val
    /\ RepliedOk(i) /\ RepliedOk(j)
    /\ bindings[Submitted(j)[1].id] = Submitted(j)[1].val

----------------------------------------------------------------------------
(* C10: the same named class declaration submitted in two execute_requests *)
(* ends both with status ok, and after each the class name is bound to the *)
(* class value that request defined.                                       *)

DeclaresClass(j) ==
  /\ Len(Submitted(j)) = 1
  /\ Submitted(j)[1].type = "ClassDeclaration"

C10_ClassReexecutable ==
  \A j \in Executed :
    DeclaresClass(j) =>
      /\ RepliedOk(j)
      /\ (j = Len(received) => bindings[Submitted(j)[1].id] = Submitted(j)[1].val)

\* the same class declaration run twice; the second run has just ended
C10_Witness ==
  \E i, j \in Executed :
    /\ i < j /\ j = Len(received)
    /\ DeclaresClass(i) /\ DeclaresClass(j)
    /\ Submitted(i) = Submitted(j)
    /\ RepliedOk(i) /\ RepliedOk(j)
    /\ bindings[Submitted(j)[1].id] = Submitted(j)[1].val

----------------------------------------------------------------------------
(* C11: a shutdown_request received on the control channel ends the        *)
(* process at once with exit code 0 and without a reply; once the process  *)
(* has exited no message is handled, no callback runs and nothing more is  *)
(* sent on any socket.                                                     *)

\* the well-formed shutdown_request messages received on the control channel
ShutdownReceived ==
  {j \in 1..Len(received) :
     /\ received[j].channel = "control"
     /\ received[j].msg.variant = "ok"
     /\ received[j].msg.type = "shutdown_request"}

ShutdownExited ==
  \A j \in ShutdownReceived :
    /\ proc = "exit0"
    /\ j = Len(received)
    /\ SendsOf(j) = {}

C11_ShutdownFinal == [][proc # "exit0" /\ ShutdownExited']_vars

\* the process exited while a callback of user code was still scheduled and
\* more messages could have arrived
C11_Witness ==
  /\ proc = "exit0"
  /\ ShutdownReceived # {}
  /\ timers # {}
  /\ sent # << >>
  /\ Len(received) < MaxMsgs

----------------------------------------------------------------------------
(* The event loop: a message can arrive on a socket at any time, also      *)
(* while the shell handler is evaluating code; a handler or a callback     *)
(* runs only when no other is on the stack.  The execute_request branch is *)
(* taken in three steps (up to the hooks, the evaluation, the rest), so    *)
(* that arrivals fall between them.                                        *)

LoopPrograms ==
  { Source(<< Expr("literal", "2") >>),
    Source(<< Expr("console.log", "hi") >>),
    Source(<< Expr("setTimeout.assign", "3") >>),
    Source(<< Throw("Error") >>) }

\* what can arrive, and on which socket
LoopArrivals ==
  { [channel |-> "shell",
     msg |-> Message("ok", << Tok("idA") >>, ConfigKey, "execute_request", ExecuteContent(src))] :
       src \in LoopPrograms }
  \cup { [channel |-> "shell",
          msg |-> Message("ok", << Tok("idA") >>, ConfigKey, "kernel_info_request", EmptyObj)],
         [channel |-> "control",
          msg |-> Message("ok", << Tok("idA") >>, ConfigKey, "shutdown_request",
                          [restart |-> FALSE])],
         [channel |-> "hb", msg |-> << Tok("ping") >>] }

\* the number of the handler run that is on the stack, 0 when there is none
OnStack == IF running = << >> THEN 0 ELSE running[1].cause

\* a message reaches its socket; during records the handler run it arrived under
Arrive ==
  /\ proc = "running"
  /\ Len(received) + Len(pending) < MaxMsgs
  /\ \E a \in LoopArrivals :
       pending' = Append(pending, [channel |-> a.channel, msg |-> a.msg, during |-> OnStack])
  /\ UNCHANGED <<proc, executionCount, console, bindings, lexical, timers, sent, received,
                 nextUuid, running, codecIn, codecOut>>

\* the pending messages the loop can deliver next: the oldest of each socket
Deliverable ==
  {k \in 1..Len(pending) : \A i \in 1..(k - 1) : pending[i].channel # pending[k].channel}

Remove(s, k) == SubSeq(s, 1, k - 1) \o SubSeq(s, k + 1, Len(s))

\* no handler is on the stack: the loop can emit the next 'message' event
LoopIdle == proc = "running" /\ running = << >>

\* sockets.hb.on('message', (data) => sockets.hb.send(data)), run by the loop
HbTurn ==
  /\ LoopIdle
  /\ \E k \in Deliverable :
       /\ pending[k].channel = "hb"
       /\ pending' = Remove(pending, k)
       /\ received' = Append(received, pending[k])
       /\ sent' = Append(sent, HbSend(pending[k].msg, Len(received) + 1))
  /\ UNCHANGED <<proc, executionCount, console, bindings, lexical, timers, nextUuid,
                 running, codecIn, codecOut>>

\* the control handler, run by the loop
ControlTurn ==
  /\ LoopIdle
  /\ \E k \in Deliverable :
       LET args == WireOf(pending[k].msg, Len(received) + 1) IN
       /\ pending[k].channel = "control"
       /\ pending' = Remove(pending, k)
       /\ received' = Append(received, pending[k])
       /\ IF parseThrows(args)
          THEN Crash
          ELSE /\ proc' = AfterControl(Get(parse(args).header, "msg_type"), proc)
               /\ UNCHANGED <<executionCount, console, bindings, lexical, timers, sent, nextUuid>>
  /\ UNCHANGED <<running, codecIn, codecOut>>

\* the execute_request branch up to the installation of the hooks
ExecuteBegin(data, cause) ==
  LET count == Increment(executionCount)
      calls == BeginCalls(data, count)
  IN  /\ executionCount' = count
      /\ console' = << data.header >>
      /\ sent' = sent \o Emit(calls, nextUuid, cause)
      /\ nextUuid' = nextUuid + UuidsUsed(calls)
      /\ running' = << [cause |-> cause, data |-> data, stage |-> "evaluate",
                        ev |-> EvalStart(bindings, lexical)] >>
      /\ UNCHANGED <<proc, bindings, lexical, timers>>

\* the shell handler, run by the loop; an execute_request stays on the stack
ShellTurn ==
  /\ LoopIdle
  /\ \E k \in Deliverable :
       LET cause == Len(received) + 1
           args == WireOf(pending[k].msg, cause)
       IN
       /\ pending[k].channel = "shell"
       /\ pending' = Remove(pending, k)
       /\ received' = Append(received, pending[k])
       /\ IF parseThrows(args)
          THEN Crash /\ UNCHANGED running
          ELSE LET data == parse(args) IN
               CASE Get(data.header, "msg_type") = "kernel_info_request" ->
                      KernelInfo(data, cause) /\ UNCHANGED running
                 [] Get(data.header, "msg_type") = "execute_request" -> ExecuteBegin(data, cause)
                 [] OTHER -> UNCHANGED <<proc, executionCount, console, bindings, lexical,
                                         timers, sent, nextUuid, running>>
  /\ UNCHANGED <<codecIn, codecOut>>

\* util.inspect(vm.runInContext(rewriteCode(code), context)) of the handler on the stack
EvaluateStep ==
  /\ proc = "running"
  /\ running # << >>
  /\ running[1].stage = "evaluate"
  /\ LET r == running[1]
         ev == Evaluate(r.data.content.code, bindings, lexical)
         calls == StreamCalls(r.data, ev)
     IN  /\ bindings' = ev.bindings
         /\ lexical' = ev.lexical
         /\ timers' = timers \cup
              { [ref |-> ev.timers[k].ref, text |-> ev.timers[k].text,
                 origin |-> r.data.header, cause |-> r.cause] : k \in DOMAIN ev.timers }
         /\ sent' = sent \o Emit(calls, nextUuid, r.cause)
         /\ nextUuid' = nextUuid + UuidsUsed(calls)
         /\ running' = << [r EXCEPT !.stage = "finish", !.ev = ev] >>
  /\ UNCHANGED <<proc, executionCount, console, received, pending, codecIn, codecOut>>

\* the rest of the handler on the stack: result or error, reply, status idle
FinishStep ==
  /\ proc = "running"
  /\ running # << >>
  /\ running[1].stage = "finish"
  /\ LET r == running[1]
         calls == EndCalls(r.data, r.ev, executionCount)
     IN  /\ sent' = sent \o Emit(calls, nextUuid, r.cause)
         /\ nextUuid' = nextUuid + UuidsUsed(calls)
         /\ proc' = IF HandlerThrows(r.ev) THEN "crashed" ELSE proc
  /\ running' = << >>
  /\ UNCHANGED <<executionCount, console, bindings, lexical, timers, received, pending,
                 codecIn, codecOut>>

NextLoop ==
  Arrive \/ HbTurn \/ ControlTurn \/ ShellTurn \/ EvaluateStep \/ FinishStep \/ RunTimer

SpecLoop == Init /\ [][NextLoop]_vars

----------------------------------------------------------------------------
(* C12: a frame that arrives on the heartbeat channel while an             *)
(* execute_request is between its busy and idle broadcasts is echoed back  *)
(* unmodified before that execution finishes (before its status idle).     *)

\* the echoes of heartbeat frame k, as positions of sent
EchoesOf(k) == {e \in 1..Len(sent) : sent[e].socket = "hb" /\ sent[e].cause = k}

C12_HeartbeatNotQueued ==
  \A k \in 1..Len(received) :
    (received[k].channel = "hb" /\ received[k].during # 0) =>
      \A e \in EchoesOf(k) :
        /\ Data(sent[e]) = received[k].msg
        /\ \A i \in SendsOf(received[k].during) : IsStatus(i, "idle") => e < i

----------------------------------------------------------------------------
(* C13: a kernel_info_request on the shell channel is answered with        *)
(* exactly one kernel_info_reply carrying the static info record, and      *)
(* nothing else changes: no iopub broadcast, executionCount, the context   *)
(* (bindings, scheduled callbacks) and its console hooks stay as they are. *)

\* this step handled an inbound message of the given channel and msg_type
Handled(channel, type) ==
  /\ Len(received') = Len(received) + 1
  /\ received'[Len(received')].channel = channel
  /\ received'[Len(received')].msg.variant = "ok"
  /\ received'[Len(received')].msg.type = type

\* this step sent nothing
NothingSent == sent' = sent

ContextUnchanged == UNCHANGED <<bindings, lexical, timers>>

C13_KernelInfoOnly ==
  [][Handled("shell", "kernel_info_request") =>
       /\ Len(sent') = Len(sent) + 1
       /\ SubSeq(sent', 1, Len(sent)) = sent
       /\ LET e == sent'[Len(sent')] IN
            /\ e.socket = "shell"
            /\ e.type = "kernel_info_reply"
            /\ JSONparse(JSONstringify(e.content)) = info
            /\ e.cause = Len(received')
       /\ ContextUnchanged
       /\ UNCHANGED <<proc, executionCount, console>>]_vars

\* a kernel_info_request answered after an execution that installed hooks
\* and left a callback scheduled
C13_Witness ==
  /\ Len(received) >= 2
  /\ received[Len(received)].channel = "shell"
  /\ received[Len(received)].msg.type = "kernel_info_request"
  /\ SendsOfType(Len(received), "kernel_info_reply") # {}
  /\ executionCount >= 1
  /\ console # << >>
  /\ timers # {}

----------------------------------------------------------------------------
(* C14: an execute_request whose code is not syntactically valid gets      *)
(* status busy, execute_input with the raw code and the incremented count, *)
(* an error broadcast naming a SyntaxError, an execute_reply with status   *)
(* error, and status idle; the process keeps running and the bindings and  *)
(* scheduled callbacks of the context are as before the request.           *)

\* the source text of the message this step handled
HandledCode == received'[Len(received')].msg.content.code
\* what this step sent
NewSends == SubSeq(sent', Len(sent) + 1, Len(sent'))
SentContent(e) == JSONparse(JSONstringify(e.content))

----------------------------------------------------------------------------
(* C15: for every execute_request the handler emits, in this order and     *)
(* with none skipped: status busy; execute_input with the raw code and the *)
(* new count; then execute_result followed by execute_reply ok, or error   *)
(* followed by execute_reply error; then status idle.  One execute_reply   *)
(* and one result-or-error broadcast per request.                          *)

\* what was sent for request j other than stream events
StepsOf(j) == {k \in SendsOf(j) : TypeOfSend(k) # "stream"}

C15_FiveSteps ==
  LET ex == Executed IN
  \A j \in ex :
    /\ Cardinality(StepsOf(j)) = 5
    /\ \E b \in StepsOf(j) : \E n \in StepsOf(j) : \E o \in StepsOf(j) :
       \E r \in StepsOf(j) : \E i \in StepsOf(j) :
         /\ b < n /\ n < o /\ o < r /\ r < i
         /\ IsStatus(b, "busy")
         /\ TypeOfSend(n) = "execute_input"
         /\ ContentOfSend(n) = [code |-> received[j].msg.content.code,
                                execution_count |-> ExecRank(ex, j)]
         /\ \/ TypeOfSend(o) = "execute_result" /\ ContentOfSend(r).status = "ok"
            \/ TypeOfSend(o) = "error" /\ ContentOfSend(r).status = "error"
         /\ TypeOfSend(r) = "execute_reply"
         /\ IsStatus(i, "idle")
         /\ \A s \in SendsOfType(j, "stream") : n < s

----------------------------------------------------------------------------
(* The decoder on its own: parse applied to frames as they come off the    *)
(* wire, well formed or damaged                                            *)

DecodeTypes == {"kernel_info_request", "execute_request", "shutdown_request"}
DecodeContents == { EmptyObj, ExecuteContent(Source(<< Expr("literal", "2") >>)) }

\* the frames the decoder is given
DecodeFrames(in) ==
  Wire(in.variant, in.ids, ConfigKey, ClientHeader(1, in.type), in.content)

InitDecode ==
  /\ proc = "running"
  /\ executionCount = 0
  /\ console = << >>
  /\ bindings = [n \in Names |-> Undefined]
  /\ lexical = {}
  /\ timers = {}
  /\ sent = << >>
  /\ received = << >>
  /\ nextUuid = 0
  /\ pending = << >>
  /\ running = << >>
  /\ codecIn \in [variant : {"ok"} \cup Malformed, ids : CodecIds, type : DecodeTypes,
                  content : DecodeContents]
  /\ codecOut = << >>

\* parse(...args)
Decode ==
  /\ codecOut = << >>
  /\ LET frames == DecodeFrames(codecIn)
     IN  codecOut' = << IF parseThrows(frames)
                        THEN [threw |-> TRUE, data |-> EmptyObj]
                        ELSE [threw |-> FALSE, data |-> parse(frames)] >>
  /\ UNCHANGED <<proc, executionCount, console, bindings, lexical, timers, sent, received,
                 nextUuid, pending, running, codecIn>>

NextDecode == Decode

SpecDecode == InitDecode /\ [][NextDecode]_vars

----------------------------------------------------------------------------
(* C16: decode fails, and returns no Message, when the delimiter frame is  *)
(* absent, when one of the four payload frames (header, parent header,     *)
(* metadata, content) is not JSON, and when fewer than four payload frames *)
(* follow the signature.                                                   *)

C16_DecodeRejects ==
  (codecOut # << >> /\ IsMalformed(DecodeFrames(codecIn))) => codecOut[1].threw

----------------------------------------------------------------------------
(* The transformer on its own: rewriteCode applied to programs of one or   *)
(* two statements, declarations at the top level and inside a block        *)

TransformStatements ==
  { VarDecl("let", "x", "1"),
    VarDecl("const", "x", "2"),
    VarDecl("var", "x", "1"),
    ClassDecl("A", "class A {m}"),
    Expr("literal", "2"),
    Block(<< VarDecl("let", "x", "1") >>),
    Block(<< ClassDecl("A", "class A {m}") >>),
    Block(<< VarDecl("const", "x", "2"), Expr("ident", "x") >>) }

TransformSources ==
  { Source(<< s >>) : s \in TransformStatements }
  \cup { Source(<< s, t >>) : s \in TransformStatements, t \in TransformStatements }
  \cup { BadSource }

InitTransform ==
  /\ proc = "running"
  /\ executionCount = 0
  /\ console = << >>
  /\ bindings = [n \in Names |-> Undefined]
  /\ lexical = {}
  /\ timers = {}
  /\ sent = << >>
  /\ received = << >>
  /\ nextUuid = 0
  /\ pending = << >>
  /\ running = << >>
  /\ codecIn \in TransformSources
  /\ codecOut = << >>

\* rewriteCode(source)
Transform ==
  /\ codecOut = << >>
  /\ codecOut' = << IF rewriteCodeThrows(codecIn)
                    THEN [threw |-> TRUE, code |-> BadSource]
                    ELSE [threw |-> FALSE, code |-> rewriteCode(codecIn)] >>
  /\ UNCHANGED <<proc, executionCount, console, bindings, lexical, timers, sent, received,
                 nextUuid, pending, running, codecIn>>

NextTransform == Transform

SpecTransform == InitTransform /\ [][NextTransform]_vars

----------------------------------------------------------------------------
(* C17: transform rewrites only top-level declarations: each top-level     *)
(* let/const becomes a var declaration and each top-level class            *)
(* declaration a var binding of the class value at the same index of the   *)
(* program body, and every other statement, with the declarations nested   *)
(* in it, is in the output unchanged (same kind, same position).           *)

C17_OnlyTopLevel ==
  (codecOut # << >> /\ ~codecOut[1].threw) =>
    LET in == codecIn.body
        out == codecOut[1].code.body
    IN  /\ Len(out) = Len(in)
        /\ \A k \in DOMAIN in :
             IF IsLexicalDecl(in[k])
             THEN out[k] = VarDecl("var", in[k].id, in[k].val)
             ELSE out[k] = in[k]

----------------------------------------------------------------------------
(* C18: a well-formed message whose msg_type the channel does not          *)
(* recognise (anything but kernel_info_request or execute_request on       *)
(* shell, anything but shutdown_request on control) is ignored: nothing is *)
(* sent, the process keeps running, and executionCount, the console hooks  *)
(* and the context are unchanged.                                          *)

Recognised(channel) ==
  IF channel = "shell" THEN {"kernel_info_request", "execute_request"} ELSE {"shutdown_request"}

IsUnrecognised(e) ==
  /\ e.channel \in {"shell", "control"}
  /\ e.msg.variant = "ok"
  /\ e.msg.type \notin Recognised(e.channel)

C18_UnrecognisedIgnored ==
  [][(Len(received') = Len(received) + 1 /\ IsUnrecognised(received'[Len(received')])) =>
       /\ NothingSent
       /\ proc' = "running"
       /\ ContextUnchanged
       /\ UNCHANGED <<executionCount, console, nextUuid>>]_vars

\* after an execution that left hooks and a scheduled callback, one
\* unrecognised message was handled on each of the two channels
C18_Witness ==
  /\ executionCount >= 1
  /\ timers # {}
  /\ proc = "running"
  /\ \E i, j \in 2..Len(received) :
       /\ IsUnrecognised(received[i]) /\ received[i].channel = "shell"
       /\ IsUnrecognised(received[j]) /\ received[j].channel = "control"

----------------------------------------------------------------------------
(* C19: under any interleaving of arrivals on the shell, control and       *)
(* heartbeat sockets at most one execute_request is between its busy and   *)
(* idle broadcasts, the events the handler emits for an earlier request    *)
(* all precede those of a later one, and executionCount and the execution  *)
(* context change only while a request is between busy and idle.           *)

\* the execute requests that have their status busy and not yet their status idle
InFlight == {j \in Executed : \A i \in SendsOf(j) : ~IsStatus(i, "idle")}

\* the message types only the shell handler emits
HandlerTypes ==
  {"status", "execute_input", "execute_result", "error", "execute_reply", "kernel_info_reply"}
HandlerSends(j) == {k \in SendsOf(j) : TypeOfSend(k) \in HandlerTypes}

OneAtATime ==
  /\ Cardinality(InFlight) <= 1
  /\ \A i, j \in Executed :
       i < j => \A a \in HandlerSends(i) : \A b \in HandlerSends(j) : a < b

C19_Serialised ==
  [][/\ OneAtATime'
     /\ (executionCount' # executionCount \/ bindings' # bindings \/ lexical' # lexical) =>
          (InFlight # {} \/ InFlight' # {})]_vars

----------------------------------------------------------------------------
(* C20: every stream event is emitted while the request named in its       *)
(* parent_header is busy: after that request's status busy and before its  *)
(* status idle, also when the console call is made by a callback the       *)
(* request's code scheduled through the timers of the context.             *)

\* the parent_header a sent message carries
ParentOfSend(k) == JSONparse(JSONstringify(sent[k].parent))
\* the inbound messages whose header is h
RequestsNamed(h) == {j \in 1..Len(received) : received[j].channel # "hb" /\ RequestHeader(j) = h}

C20_StreamWhileBusy ==
  \A k \in Sends :
    TypeOfSend(k) = "stream" =>
      /\ RequestsNamed(ParentOfSend(k)) # {}
      /\ \A j \in RequestsNamed(ParentOfSend(k)) :
           /\ \E b \in SendsOf(j) : IsStatus(b, "busy") /\ b < k
           /\ \A i \in SendsOf(j) : IsStatus(i, "idle") => k < i

====
